---- MODULE Spec2Model ----
(***************************************************************************)
(* Camera module of the smart-home controller (src/src/sensors/camera.py). *)
(*                                                                         *)
(* The module keeps three process-wide globals, _picamera_object,          *)
(* _camera_thread and _is_running, that are read and written without any   *)
(* lock by the threads that call start_camera_streaming and                *)
(* stop_camera_streaming (the main thread, src/src/main.py:81,107, and the *)
(* message-bus callback thread, src/src/utils/mqtt.py:353,356) and by the  *)
(* capture worker threads running _camera_loop.  Every action below is one *)
(* block of statements of one of these threads between two accesses to     *)
(* shared state; the outcome of a device, registry, transcoder or uploader *)
(* operation that the code guards with try/except is chosen by \E.         *)
(***************************************************************************)
EXTENDS Naturals, Sequences, FiniteSets

(* ---- bounds of the model ---------------------------------------------- *)
MaxMessages == 2   \* camera control messages the bus delivers in one run
MaxOverlaps == 1   \* calls that begin while a call of the other thread runs
MaxWorkers == 2    \* thread objects that exist at the same time
MaxHandles == 2    \* Picamera2 objects that exist at the same time
RotationTicks == 2 \* RECORDING_DURATION_SECONDS (camera.py:76) in loop passes
MaxSegments == 2   \* segments counted at the transcoder and at the uploader
MaxElapsed == 2 * RotationTicks   \* a worker's running time is told up to this
MaxAge == RotationTicks + 2       \* a segment's duration is told up to this

(* ---- program constants ------------------------------------------------ *)
max_retries == 3   \* camera.py:131
close_retries == 3 \* camera.py:869, 970
MaxCloses == 1 + close_retries   \* close() calls made on one object at most

Callers == {"main", "mqtt"}
HomeIds == {"home-1"}
Workers == 1..MaxWorkers
Handles == 1..MaxHandles
None == 0

VARIABLES
  _is_running,       \* threading.Event, camera.py:86
  _camera_thread,    \* None or the thread object last stored, camera.py:85
  _picamera_object,  \* None or the Picamera2 object last stored, camera.py:84
  handles,           \* the Picamera2 objects: open/closed, recording or not
  workers,           \* the thread objects running _camera_loop
  registry,          \* the "devices" row of DEVICE_ID
  events,            \* the "event_log" rows written for DEVICE_ID
  rawExists,         \* os.path.exists(VIDEO_FILE_PATH)
  mp4Exists,         \* os.path.exists(MP4_FILE_PATH)
  pc,                \* position of each calling thread
  loc,               \* locals of each calling thread
  result,            \* the call that returned last, and by which path
  messages,          \* number of camera control messages handled so far
  overlaps,          \* number of calls begun while another call was running
  observed,          \* the run is metered: time.time() and the counters run
  puts               \* calls of upload_file_to_r2 (camera.py:1034)

vars == <<_is_running, _camera_thread, _picamera_object, handles, workers,
          registry, events, rawExists, mp4Exists, pc, loc, result, messages,
          overlaps, observed, puts>>

\* what a metered run observes of the uploader
meter == <<observed, puts>>

shared == <<_is_running, _camera_thread, _picamera_object, handles, workers,
            registry, events, rawExists, mp4Exists, meter>>

\* wasStopped records whether the camera was stopped when the call began; no
\* action reads it
NoLoc == [op |-> "-", home |-> "-", wasStopped |-> FALSE, attempt |-> 0,
          e |-> "-", how |-> "-", joinT |-> None, updNew |-> "-", updOld |-> "-",
          updRet |-> "-"]

\* closes is the number of close() calls made on the object, told in metered
\* runs only and up to MaxCloses + 1
NoHandle == [st |-> "free", recording |-> FALSE, closes |-> 0]
\* a worker's locals is_recording and recording_start_time (camera.py:498-499);
\* age is time.time() - recording_start_time, elapsed the time since the
\* thread began, handed the segments it gave to the transcoder,
\* conversion_successful what the transcoder returned last (camera.py:365),
\* upload_successful what the uploader returned last (camera.py:1034),
\* faulted whether a device, transcoder, uploader or publishing operation
\* failed in one of its passes, live the last live-preview message the thread
\* gave to the bus, frame_captured_this_iteration the local of the last pass
\* (camera.py:513, 518), run what subprocess.run did in the last conversion
\* and converted what _convert_h264_to_mp4 answered to it, e_remove_orphan
\* whether the removal of a stale MP4 raised when the thread last opened a
\* recording (camera.py:437, 468), start_lag whether a segment was converted
\* between the reading of current_time (camera.py:540) and the
\* start_recording that made it the recording_start_time; the last twelve
\* are told in metered runs only, the times in loop passes
NoMessage == [topic |-> "-", home_id |-> "-"]
NoWorker == [pc |-> "none", is_recording |-> FALSE, home |-> "-", age |-> 0,
             elapsed |-> 0, handed |-> 0, conversion_successful |-> FALSE,
             upload_successful |-> FALSE, faulted |-> FALSE,
             live |-> NoMessage, frame_captured_this_iteration |-> FALSE,
             run |-> "-", converted |-> "-", e_remove_orphan |-> FALSE,
             start_lag |-> FALSE]
NoResult == [by |-> "-", op |-> "-", how |-> "-"]
NoDevice == [exists |-> FALSE, state |-> "-", home |-> "-"]

Init ==
  /\ _is_running = FALSE
  /\ _camera_thread = None
  /\ _picamera_object = None
  /\ handles = [h \in Handles |-> NoHandle]
  /\ workers = [w \in Workers |-> NoWorker]
  /\ registry = NoDevice
  /\ events = << >>
  /\ rawExists = FALSE
  /\ mp4Exists = FALSE
  /\ pc = [c \in Callers |-> IF c = "main" THEN "boot" ELSE "idle"]
  /\ loc = [c \in Callers |-> NoLoc]
  /\ result = NoResult
  /\ messages = 0
  /\ overlaps = 0
  /\ observed = FALSE
  /\ puts = 0

\* the same program in a metered run
MeteredInit ==
  /\ _is_running = FALSE
  /\ _camera_thread = None
  /\ _picamera_object = None
  /\ handles = [h \in Handles |-> NoHandle]
  /\ workers = [w \in Workers |-> NoWorker]
  /\ registry = NoDevice
  /\ events = << >>
  /\ rawExists = FALSE
  /\ mp4Exists = FALSE
  /\ pc = [c \in Callers |-> IF c = "main" THEN "boot" ELSE "idle"]
  /\ loc = [c \in Callers |-> NoLoc]
  /\ result = NoResult
  /\ messages = 0
  /\ overlaps = 0
  /\ observed = TRUE
  /\ puts = 0

(* ---- helpers ---------------------------------------------------------- *)
\* threading.Thread.is_alive()
is_alive(w) == w # None /\ workers[w].pc # "none"

AliveWorkers == {w \in Workers : is_alive(w)}

\* the camera is stopped: no worker thread and no camera object
AlreadyStopped == AliveWorkers = {} /\ _picamera_object = None

IsOpen(h) == h # None /\ handles[h].st = "open"

OpenHandles == {h \in Handles : handles[h].st = "open"}

\* get_device_by_id(DEVICE_ID).get("current_state"), "none" when no row
get_device_by_id == IF registry.exists THEN registry.state ELSE "none"

\* where a thread is between two calls: the main thread starts the camera
\* once (main.py:81), waits in signal.pause() (main.py:95) and stops it once
\* on shutdown (main.py:107); the bus thread handles one message at a time
Resting == {"boot", "paused", "exit", "idle"}

AfterCall(c) ==
  CASE c # "main" -> "idle"
    [] c = "main" /\ loc[c].op = "start" -> "paused"
    [] c = "main" /\ loc[c].op # "start" -> "exit"

\* sys.exit(0) after the shutdown sequence ends the process (main.py:118)
Exited == pc["main"] = "exit"

\* thread c of the live process is at `label`
At(c, label) == ~Exited /\ pc[c] = label

\* worker w of the live process is at `label`
Running(w, label) == ~Exited /\ workers[w].pc = label

\* a call returns: the thread rests again and its locals are gone
Return(c, how) ==
  /\ pc' = [pc EXCEPT ![c] = AfterCall(c)]
  /\ loc' = [loc EXCEPT ![c] = NoLoc]
  /\ result' = [by |-> c, op |-> loc[c].op, how |-> how]

Goto(c, label) == pc' = [pc EXCEPT ![c] = label]

(* ---- the device: methods of a Picamera2 object ------------------------ *)
\* Picamera2.close(): the device is released and any encoder stops
Closed(h) ==
  [handles EXCEPT ![h] = [st |-> "free", recording |-> FALSE,
                          closes |-> IF observed /\ @.closes <= MaxCloses
                                       THEN @.closes + 1 ELSE @.closes]]

\* close() raised `failures` times on the object h of `hs`
Raised(hs, h, failures) ==
  [hs EXCEPT ![h].closes = IF ~observed THEN @
                           ELSE IF @ + failures <= MaxCloses THEN @ + failures
                           ELSE MaxCloses + 1]

\* camera.py:172-176, 202-206  try: _picamera_object.close() except: pass,
\* on whatever _picamera_object holds
close_once(closed) ==
  IF _picamera_object = None THEN handles
  ELSE IF closed THEN Closed(_picamera_object)
  ELSE Raised(handles, _picamera_object, 1)

\* camera.py:838-883, 955-1013  how often close() raises before the release
\* ends: `closed`, a call succeeds, the first one or one of the close_retries
\* forced ones; otherwise every call raised, close_retries of them when
\* stop_recording() raised before the first close() and one more when not
CloseFailures(closed) ==
  IF closed THEN 0..close_retries ELSE {close_retries, close_retries + 1}

\* Picamera2.stop_recording()
RecordingStopped(h) == [handles EXCEPT ![h].recording = FALSE]

\* Picamera2.start_recording(H264Encoder(), VIDEO_FILE_PATH)
RecordingStarted(h) == [handles EXCEPT ![h].recording = TRUE]

IsRecording(h) == h # None /\ handles[h].recording

(* ---- _update_camera_state(home_id, new_state, message) ---------------- *)
\* the caller of _update_camera_state continues at `after`
update_camera_state(c, new_state, after, how) ==
  /\ pc' = [pc EXCEPT ![c] = "upd_read"]
  /\ loc' = [loc EXCEPT ![c].updNew = new_state, ![c].updRet = after,
                        ![c].how = how]

\* camera.py:780-781  device = get_device_by_id(DEVICE_ID); old_state = ...
upd_read(c) ==
  /\ At(c, "upd_read")
  /\ loc' = [loc EXCEPT ![c].updOld = get_device_by_id]
  /\ Goto(c, "upd_write")
  /\ UNCHANGED <<shared, result, messages, overlaps>>

\* update_device_state: UPDATE devices SET current_state WHERE id = DEVICE_ID
update_device_state(new_state) ==
  IF registry.exists THEN [registry EXCEPT !.state = new_state] ELSE registry

\* insert_event(home_id, DEVICE_ID, "camera_changed", old_state, new_state)
insert_event(home_id, old_state, new_state) ==
  Append(events, [home |-> home_id, old |-> old_state, new |-> new_state])

\* camera.py:784-802  update_device_state, then insert_event if the state changed
upd_write(c) ==
  /\ At(c, "upd_write")
  /\ registry' = update_device_state(loc[c].updNew)
  /\ events' = IF loc[c].updOld # loc[c].updNew
                 THEN insert_event(loc[c].home, loc[c].updOld, loc[c].updNew)
                 ELSE events
  /\ IF loc[c].updRet = "return"
       THEN Return(c, loc[c].how)
       ELSE /\ Goto(c, loc[c].updRet)
            /\ loc' = [loc EXCEPT ![c].updNew = "-", ![c].updOld = "-",
                                  ![c].updRet = "-", ![c].how = "-"]
            /\ UNCHANGED result
  /\ UNCHANGED <<_is_running, _camera_thread, _picamera_object, handles,
                 workers, rawExists, mp4Exists, meter, messages, overlaps>>

(* ---- stop_camera_streaming(home_id) ----------------------------------- *)
\* the main thread may call now (boot for start, paused for stop); the bus
\* thread may when a further control message arrives
Overlapping(c) == \E d \in Callers \ {c} : pc[d] \notin Resting

MayCall(c, op) ==
  /\ IF c = "main"
       THEN At(c, IF op = "start" THEN "boot" ELSE "paused")
       ELSE At(c, "idle") /\ messages < MaxMessages
  /\ Overlapping(c) => overlaps < MaxOverlaps

Called(c, op) ==
  /\ messages' = IF c = "main" THEN messages ELSE messages + 1
  /\ overlaps' = IF Overlapping(c) THEN overlaps + 1 ELSE overlaps
  /\ \E h \in HomeIds :
       loc' = [loc EXCEPT ![c].home = h, ![c].op = op,
                          ![c].wasStopped = AlreadyStopped]
  /\ result' = NoResult

\* a thread calls stop_camera_streaming (main.py:107, mqtt.py:356)
call_stop(c) ==
  /\ MayCall(c, "stop")
  /\ Called(c, "stop")
  /\ Goto(c, "stop_clear")
  /\ UNCHANGED shared

\* where stop_camera_streaming returns to: start_camera_streaming goes on
\* with _setup_camera (camera.py:654-657), any other caller is done
AfterStop(c) == IF loc[c].op = "start" THEN "setup_acquire" ELSE "return"

\* camera.py:931-932  time.sleep(1); stop_camera_streaming returns
stop_done(c, how) ==
  IF loc[c].op = "start"
    THEN Goto(c, "setup_acquire") /\ UNCHANGED <<loc, result>>
    ELSE Return(c, how)

\* a stop that leaves the running flag as it is
stop_clear_keeps_flag(c) ==
  /\ At(c, "stop_clear")
  /\ IF is_alive(_camera_thread)
       THEN /\ loc' = [loc EXCEPT ![c].joinT = _camera_thread]
            /\ Goto(c, "stop_join")
            /\ UNCHANGED _camera_thread
       ELSE /\ _camera_thread' = None
            /\ Goto(c, "stop_object")
            /\ UNCHANGED loc
  /\ UNCHANGED <<_is_running, _picamera_object, handles, workers, registry,
                 events, rawExists, mp4Exists, meter, result, messages,
                 overlaps>>

\* camera.py:821-823, 830  _is_running.clear(); if _camera_thread and
\* _camera_thread.is_alive(): join it, else _camera_thread = None
stop_clear(c) ==
  /\ At(c, "stop_clear")
  /\ _is_running' = FALSE
  /\ IF is_alive(_camera_thread)
       THEN /\ loc' = [loc EXCEPT ![c].joinT = _camera_thread]
            /\ Goto(c, "stop_join")
            /\ UNCHANGED _camera_thread
       ELSE /\ _camera_thread' = None
            /\ Goto(c, "stop_object")
            /\ UNCHANGED loc
  /\ UNCHANGED <<_picamera_object, handles, workers, registry, events,
                 rawExists, mp4Exists, meter, result, messages, overlaps>>

\* a join without timeout: it returns only when the thread has ended
join_unbounded(w, timed_out) == ~timed_out /\ ~is_alive(w)

\* join(timeout=5.0) returns when the thread has ended or the time is up
join(w, timed_out) == IF timed_out THEN is_alive(w) ELSE ~is_alive(w)

\* camera.py:825-830  _camera_thread.join(timeout=5.0); _camera_thread = None
stop_join(c) ==
  /\ At(c, "stop_join")
  /\ \E timed_out \in BOOLEAN : join(loc[c].joinT, timed_out)
  /\ _camera_thread' = None
  /\ loc' = [loc EXCEPT ![c].joinT = None]
  /\ Goto(c, "stop_object")
  /\ UNCHANGED <<_is_running, _picamera_object, handles, workers, registry,
                 events, rawExists, mp4Exists, meter, result, messages, overlaps>>

\* what the release of the camera object can meet (camera.py:838-883):
\*   closed   stop_recording() and close() succeed, or a forced close() does
\*   stopped  stop_recording() succeeds, close() fails every time
\*   stuck    stop_recording() raises and close() fails every time
ReleaseOutcomes == {"closed", "stopped", "stuck"}

Released(h, outcome) ==
  CASE outcome = "closed" -> Closed(h)
    [] outcome = "stopped" -> RecordingStopped(h)
    [] outcome = "stuck" -> handles

\* a release that gives up without a forced close() when stop_recording()
\* raised
ReleaseFailuresNoForce(outcome) ==
  CASE outcome = "closed" -> CloseFailures(TRUE)
    [] outcome = "stopped" -> {close_retries + 1}
    [] outcome = "stuck" -> {0}

\* how often close() raised in a release with that outcome
ReleaseFailures(outcome) ==
  CASE outcome = "closed" -> CloseFailures(TRUE)
    [] outcome = "stopped" -> {close_retries + 1}
    [] outcome = "stuck" -> {close_retries}

\* a stop that reports "offline" whether or not the camera object was closed
stop_release_always_reports(c) ==
  /\ At(c, "stop_object")
  /\ _picamera_object # None
  /\ _picamera_object' = None
  /\ \E outcome \in ReleaseOutcomes, failures \in 0..close_retries + 1 :
       /\ failures \in ReleaseFailures(outcome)
       /\ handles' = Raised(Released(_picamera_object, outcome),
                            _picamera_object, failures)
       /\ update_camera_state(c, "offline", AfterStop(c), "clean")
       /\ UNCHANGED result
  /\ UNCHANGED <<_is_running, _camera_thread, workers, registry, events,
                 rawExists, mp4Exists, meter, messages, overlaps>>

\* camera.py:832-915  if _picamera_object: stop the recording if active,
\* close(), on an exception close() up to three more times and fuser -k;
\* finally: _picamera_object = None; "offline" is reported only after a
\* close() that succeeded, "error" writes nothing (camera.py:775-778)
stop_release(c) ==
  /\ At(c, "stop_object")
  /\ _picamera_object # None
  /\ _picamera_object' = None
  /\ \E outcome \in ReleaseOutcomes, failures \in 0..close_retries + 1 :
       /\ failures \in ReleaseFailures(outcome)
       /\ handles' = Raised(Released(_picamera_object, outcome),
                            _picamera_object, failures)
       /\ IF outcome = "closed"
            THEN /\ update_camera_state(c, "offline", AfterStop(c), "clean")
                 /\ UNCHANGED result
            ELSE stop_done(c, "unclean")
  /\ UNCHANGED <<_is_running, _camera_thread, workers, registry, events,
                 rawExists, mp4Exists, meter, messages, overlaps>>

\* a stop that reports "offline" whatever the registry records
stop_already_reports(c) ==
  /\ At(c, "stop_object")
  /\ _picamera_object = None
  /\ update_camera_state(c, "offline", AfterStop(c), "confirmed")
  /\ UNCHANGED <<shared, result, messages, overlaps>>

\* camera.py:916-928  _picamera_object was None: no camera operation; the
\* registry is set to offline ("confirmed offline") unless it records error or
\* offline already
stop_already(c) ==
  /\ At(c, "stop_object")
  /\ _picamera_object = None
  /\ IF registry.exists /\ get_device_by_id \notin {"error", "offline"}
       THEN /\ update_camera_state(c, "offline", AfterStop(c), "confirmed")
            /\ UNCHANGED result
       ELSE stop_done(c, "already")
  /\ UNCHANGED <<shared, messages, overlaps>>

(* ---- _cleanup_camera() ------------------------------------------------ *)
\* the caller runs _cleanup_camera and then returns by the path `how`
cleanup_camera(c, how) ==
  /\ pc' = [pc EXCEPT ![c] = "cleanup"]
  /\ loc' = [loc EXCEPT ![c].how = how]

\* a clean-up whose caller writes the error it reports into the registry and
\* logs the change
_cleanup_camera_records_error(c) ==
  /\ At(c, "cleanup")
  /\ _is_running' = FALSE
  /\ _picamera_object' = None
  /\ \E closed \in BOOLEAN, failures \in 0..close_retries + 1 :
       /\ failures \in CloseFailures(closed)
       /\ handles' = IF _picamera_object = None THEN handles
                     ELSE Raised(IF closed THEN Closed(_picamera_object)
                                           ELSE handles,
                                 _picamera_object, failures)
  /\ registry' = IF registry.exists THEN [registry EXCEPT !.state = "error"]
                                     ELSE registry
  /\ events' = IF get_device_by_id # "error"
                 THEN Append(events, [home |-> loc[c].home,
                                      old |-> get_device_by_id,
                                      new |-> "error"])
                 ELSE events
  /\ Return(c, loc[c].how)
  /\ UNCHANGED <<_camera_thread, workers, rawExists,
                 mp4Exists, meter, messages, overlaps>>

\* camera.py:940-1019  _is_running.clear(); stop the recording, close (with
\* forced retries), finally: _picamera_object = None.  The caller then reports
\* "error", which writes nothing (camera.py:775-778), and returns
_cleanup_camera(c) ==
  /\ At(c, "cleanup")
  /\ _is_running' = FALSE
  /\ _picamera_object' = None
  /\ \E closed \in BOOLEAN, failures \in 0..close_retries + 1 :
       /\ failures \in CloseFailures(closed)
       /\ handles' = IF _picamera_object = None THEN handles
                     ELSE Raised(IF closed THEN Closed(_picamera_object)
                                           ELSE handles,
                                 _picamera_object, failures)
  /\ Return(c, loc[c].how)
  /\ UNCHANGED <<_camera_thread, workers, registry, events, rawExists,
                 mp4Exists, meter, messages, overlaps>>

(* ---- _setup_camera() -------------------------------------------------- *)
\* Picamera2 objects the model can still hand out
FreeHandles == {h \in Handles : handles[h].st # "open" /\ h # _picamera_object}

NewHandle == CHOOSE h \in FreeHandles : \A g \in FreeHandles : h <= g

\* Picamera2(): a new object that holds the device
Opened(h) ==
  [handles EXCEPT ![h] = [st |-> "open", recording |-> FALSE, closes |-> 0]]

\* what one pass of the retry loop can meet (camera.py:137-210):
\*   ok       Picamera2(), configure() and start() succeed
\*   busy     Picamera2() raises "Device or resource busy"
\*   denied   Picamera2() raises "Permission denied"
\*   runtime  configure()/start() raises another RuntimeError
\*   other    an exception that is no RuntimeError: whatever
\*            _picamera_object holds is closed and it is set to None
AcquireOutcomes == {"ok", "busy", "denied", "runtime", "other"}

\* a retry loop that takes the attempt after the third for the last one
one_more_attempt(c) == loc[c].attempt = max_retries

\* camera.py:193  if attempt == max_retries - 1
last_attempt(c) == loc[c].attempt = max_retries - 1

\* a retry loop that treats "Permission denied" like a busy device
_setup_camera_retries_denied(c) ==
  /\ At(c, "setup_acquire")
  /\ \E outcome \in AcquireOutcomes, closed \in BOOLEAN :
       /\ outcome \in {"ok", "runtime"} => FreeHandles # {}
       /\ CASE outcome = "ok" ->
                 /\ handles' = Opened(NewHandle)
                 /\ _picamera_object' = NewHandle
                 /\ Goto(c, "start_reg")
                 /\ loc' = [loc EXCEPT ![c].attempt = 0, ![c].e = "-"]
                 /\ UNCHANGED result
            [] outcome \in {"busy", "denied"} ->
                 /\ handles' = close_once(closed)
                 /\ _picamera_object' = None
                 /\ IF last_attempt(c)
                      THEN Return(c, "setup_busy")
                      ELSE /\ loc' = [loc EXCEPT ![c].attempt = @ + 1,
                                                 ![c].e = outcome]
                           /\ UNCHANGED <<pc, result>>
            [] outcome = "runtime" ->
                 /\ handles' = Opened(NewHandle)
                 /\ _picamera_object' = NewHandle
                 /\ Return(c, "setup_failed")
            [] outcome = "other" ->
                 /\ handles' = close_once(closed)
                 /\ _picamera_object' = None
                 /\ Return(c, "setup_failed")
  /\ UNCHANGED <<_is_running, _camera_thread, workers, registry, events,
                 rawExists, mp4Exists, meter, messages, overlaps>>

\* camera.py:132-212  one attempt of the retry loop.  A busy device: fuser -k,
\* sleep, close whatever _picamera_object holds and set it to None, then the
\* next attempt, or give up after the attempt numbered max_retries - 1;
\* loc[c].e is the exception the attempt before raised.  When it returns
\* False start_camera_streaming returns too (camera.py:657-663), by the path
\* "setup_busy" after the last busy attempt, "setup_denied" after
\* "Permission denied", "setup_failed" otherwise
_setup_camera(c) ==
  /\ At(c, "setup_acquire")
  /\ \E outcome \in AcquireOutcomes, closed \in BOOLEAN :
       /\ outcome \in {"ok", "runtime"} => FreeHandles # {}
       /\ CASE outcome = "ok" ->
                 /\ handles' = Opened(NewHandle)
                 /\ _picamera_object' = NewHandle
                 /\ Goto(c, "start_reg")
                 /\ loc' = [loc EXCEPT ![c].attempt = 0, ![c].e = "-"]
                 /\ UNCHANGED result
            [] outcome = "busy" ->
                 /\ handles' = close_once(closed)
                 /\ _picamera_object' = None
                 /\ IF last_attempt(c)
                      THEN Return(c, "setup_busy")
                      ELSE /\ loc' = [loc EXCEPT ![c].attempt = @ + 1,
                                                 ![c].e = outcome]
                           /\ UNCHANGED <<pc, result>>
            [] outcome = "denied" ->
                 /\ Return(c, "setup_denied")
                 /\ UNCHANGED <<handles, _picamera_object>>
            [] outcome = "runtime" ->
                 /\ handles' = Opened(NewHandle)
                 /\ _picamera_object' = NewHandle
                 /\ Return(c, "setup_failed")
            [] outcome = "other" ->
                 /\ handles' = close_once(closed)
                 /\ _picamera_object' = None
                 /\ Return(c, "setup_failed")
  /\ UNCHANGED <<_is_running, _camera_thread, workers, registry, events,
                 rawExists, mp4Exists, meter, messages, overlaps>>

(* ---- start_camera_streaming(home_id) ---------------------------------- *)
InStart(c) == loc[c].op = "start"

\* thread objects that are running or that some caller is still joining
BusyWorkers == (AliveWorkers \cup {loc[c].joinT : c \in Callers}) \ {None}

FreeWorkers == Workers \ BusyWorkers

NewWorker == CHOOSE w \in FreeWorkers : \A v \in FreeWorkers : w <= v

\* a thread calls start_camera_streaming (main.py:81, mqtt.py:353)
call_start(c) ==
  /\ MayCall(c, "start")
  /\ Cardinality(BusyWorkers) + Cardinality({d \in Callers : InStart(d)})
       < MaxWorkers
  /\ Called(c, "start")
  /\ Goto(c, "start_check")
  /\ UNCHANGED shared

\* camera.py:654  stop_camera_streaming(home_id), called by start
full_restart(c) == Goto(c, "stop_clear")

\* a start that never looks at the worker: always stop and start again
start_check_restarts(c) ==
  /\ At(c, "start_check")
  /\ full_restart(c)
  /\ UNCHANGED <<shared, loc, result, messages, overlaps>>

\* camera.py:626  if _camera_thread and _camera_thread.is_alive()
\*                   and _is_running.is_set():
start_check(c) ==
  /\ At(c, "start_check")
  /\ IF is_alive(_camera_thread) /\ _is_running
       THEN Goto(c, "start_getdev")
       ELSE full_restart(c)
  /\ UNCHANGED <<shared, loc, result, messages, overlaps>>

\* a start that writes "online" again although the registry shows it
start_getdev_rewrites(c) ==
  /\ At(c, "start_getdev")
  /\ IF get_device_by_id = "none"
       THEN full_restart(c) /\ UNCHANGED <<loc, result>>
       ELSE /\ update_camera_state(c, "online", "return", "reconciled")
            /\ UNCHANGED result
  /\ UNCHANGED <<shared, messages, overlaps>>

\* a start that restarts whenever the registry does not show "online"
start_getdev_restarts(c) ==
  /\ At(c, "start_getdev")
  /\ IF get_device_by_id = "online"
       THEN Return(c, "noop")
       ELSE full_restart(c) /\ UNCHANGED <<loc, result>>
  /\ UNCHANGED <<shared, messages, overlaps>>

\* camera.py:627-645  the registry decides: nothing to do, reconcile, restart
start_getdev(c) ==
  /\ At(c, "start_getdev")
  /\ CASE get_device_by_id = "online" -> Return(c, "noop")
       [] get_device_by_id = "none" ->
            full_restart(c) /\ UNCHANGED <<loc, result>>
       [] OTHER -> /\ update_camera_state(c, "online", "return", "reconciled")
                   /\ UNCHANGED result
  /\ UNCHANGED <<shared, messages, overlaps>>

\* insert_device(...) answers with the new row, with no row, or with
\* {"error": ...} (database.py:149-168); the last is truthy for the caller
InsertOutcomes == {"row", "empty", "error"}

\* a registration that writes the row as online at once
insert_device_online(home_id) ==
  [exists |-> TRUE, state |-> "online", home |-> home_id]

\* insert_device(DEVICE_ID, home_id, DEVICE_NAME, DEVICE_TYPE, "initializing")
insert_device(home_id) ==
  [exists |-> TRUE, state |-> "initializing", home |-> home_id]

\* a start that registers the device before it looks at the bus
start_reg_registers_first(c) ==
  /\ At(c, "start_reg")
  /\ \E connected \in BOOLEAN, outcome \in InsertOutcomes :
       CASE ~connected ->
              /\ cleanup_camera(c, "mqtt_failed")
              /\ registry' = IF get_device_by_id = "none" /\ outcome = "row"
                                THEN insert_device(loc[c].home) ELSE registry
         [] connected /\ get_device_by_id # "none" ->
              /\ update_camera_state(c, "online", "start_spawn", "-")
              /\ UNCHANGED registry
         [] connected /\ get_device_by_id = "none" /\ outcome = "row" ->
              /\ registry' = insert_device(loc[c].home)
              /\ update_camera_state(c, "online", "start_spawn", "-")
         [] connected /\ get_device_by_id = "none" /\ outcome = "empty" ->
              /\ cleanup_camera(c, "insert_failed")
              /\ UNCHANGED registry
         [] connected /\ get_device_by_id = "none" /\ outcome = "error" ->
              /\ update_camera_state(c, "online", "start_spawn", "-")
              /\ UNCHANGED registry
  /\ UNCHANGED <<_is_running, _camera_thread, _picamera_object, handles,
                 workers, events, rawExists, mp4Exists, meter, result, messages, overlaps>>

\* camera.py:666-713  _setup_mqtt(): is the bus client connected; register
\* the device if the registry has no row; then
\* _update_camera_state(home_id, "online", ...)
start_reg(c) ==
  /\ At(c, "start_reg")
  /\ \E connected \in BOOLEAN, outcome \in InsertOutcomes :
       CASE ~connected ->
              /\ cleanup_camera(c, "mqtt_failed")
              /\ UNCHANGED registry
         [] connected /\ get_device_by_id # "none" ->
              /\ update_camera_state(c, "online", "start_spawn", "-")
              /\ UNCHANGED registry
         [] connected /\ get_device_by_id = "none" /\ outcome = "row" ->
              /\ registry' = insert_device(loc[c].home)
              /\ update_camera_state(c, "online", "start_spawn", "-")
         [] connected /\ get_device_by_id = "none" /\ outcome = "empty" ->
              /\ cleanup_camera(c, "insert_failed")
              /\ UNCHANGED registry
         [] connected /\ get_device_by_id = "none" /\ outcome = "error" ->
              /\ update_camera_state(c, "online", "start_spawn", "-")
              /\ UNCHANGED registry
  /\ UNCHANGED <<_is_running, _camera_thread, _picamera_object, handles,
                 workers, events, rawExists, mp4Exists, meter, result, messages, overlaps>>

\* threading.Thread(target=_camera_loop, args=(home_id,)).start()
Started(home_id) == [NoWorker EXCEPT !.pc = "w_loop", !.home = home_id]

\* camera.py:716-737  _is_running.set(); a previous thread still alive after
\* join(timeout=2.0) aborts the start (clear, _cleanup_camera); otherwise the
\* worker thread is created and started
start_spawn(c) ==
  /\ At(c, "start_spawn")
  /\ _is_running' = TRUE
  /\ IF is_alive(_camera_thread)
       THEN /\ cleanup_camera(c, "prior_alive")
            /\ UNCHANGED <<_camera_thread, workers>>
       ELSE /\ FreeWorkers # {}
            /\ _camera_thread' = NewWorker
            /\ workers' = [workers EXCEPT ![NewWorker] = Started(loc[c].home)]
            /\ Goto(c, "start_alive")
            /\ UNCHANGED loc
  /\ UNCHANGED <<_picamera_object, handles, registry, events, rawExists,
                 mp4Exists, meter, result, messages, overlaps>>

\* camera.py:739-763  if _camera_thread.is_alive(): done; else clean up
start_alive(c) ==
  /\ At(c, "start_alive")
  /\ IF _camera_thread = None
       THEN cleanup_camera(c, "exception") /\ UNCHANGED result
       ELSE IF is_alive(_camera_thread)
         THEN Return(c, "started")
         ELSE cleanup_camera(c, "not_alive") /\ UNCHANGED result
  /\ UNCHANGED <<shared, messages, overlaps>>

(* ---- _camera_loop(home_id): the capture worker ------------------------ *)
\* the thread goes on at `label`; "none" ends it and its locals are gone
WGoto(w, label) ==
  workers' = [workers EXCEPT ![w] =
                IF label = "none" THEN NoWorker ELSE [@ EXCEPT !.pc = label]]

\* a counter of a metered run, told up to `max`
Counted(n, max) == IF observed /\ n < max THEN n + 1 ELSE n

\* camera.py:525-527, 551, 559  the end of a pass, time.sleep(...): the
\* thread's running time and time.time() - recording_start_time grow by one
\* pass; `failed` is an operation of the pass having raised or failed
Slept(r, failed) ==
  [r EXCEPT !.elapsed = Counted(@, MaxElapsed),
            !.age = IF r.is_recording THEN Counted(@, MaxAge) ELSE @,
            !.faulted = @ \/ (observed /\ failed)]

\* a rotation that is due only after the duration has been exceeded
DueLate(w) ==
  IF observed THEN {workers[w].age > RotationTicks} ELSE BOOLEAN

\* camera.py:448  current_time - recording_start_time >=
\* RECORDING_DURATION_SECONDS; any outcome where the time is not told
Due(w) ==
  IF observed THEN {workers[w].age >= RotationTicks} ELSE BOOLEAN

\* camera.py:81  MQTT_CAMERA_LIVE_TOPIC = f"camera/{DEVICE_ID}/live"
MQTT_CAMERA_LIVE_TOPIC == "camera/camera_01/live"

\* what _process_and_publish_frame can meet: the frame is encoded and given to
\* a connected client, or the encoding raises or the client is not connected
\* (mqtt.py:617-621) and nothing is published; neither raises to the loop
Sendings == IF observed THEN BOOLEAN ELSE {TRUE}

\* a publisher that names the device where the home belongs
_process_and_publish_frame_device_id(r, sent) ==
  IF observed
    THEN [r EXCEPT !.live = IF sent THEN [topic |-> MQTT_CAMERA_LIVE_TOPIC,
                                          home_id |-> "camera_01"]
                                    ELSE @,
                   !.faulted = @ \/ ~sent]
    ELSE r

\* camera.py:259-289  _process_and_publish_frame(frame, home_id): the message
\* carries the home_id the thread was started with and goes to
\* MQTT_CAMERA_LIVE_TOPIC; an exception is logged and swallowed
_process_and_publish_frame(r, sent) ==
  IF observed
    THEN [r EXCEPT !.live = IF sent THEN [topic |-> MQTT_CAMERA_LIVE_TOPIC,
                                          home_id |-> r.home]
                                    ELSE @,
                   !.faulted = @ \/ ~sent]
    ELSE r

\* camera.py:428-440, 463-471  os.remove(MP4_FILE_PATH) before a recording is
\* opened, when the file exists: it removes the file, or raises and the error
\* is logged; a removal that raises is followed in metered runs only
Removals == IF observed /\ mp4Exists THEN BOOLEAN ELSE {TRUE}

\* the worker's locals after the removal was tried
Precleaned(r, removed) ==
  [r EXCEPT !.e_remove_orphan = observed /\ mp4Exists /\ ~removed,
            !.faulted = @ \/ (observed /\ mp4Exists /\ ~removed)]

\* a controller that notes the recording as open before the device has
\* opened it
_handle_recording_marks_first(w, sent, raised, due) ==
  LET framed == [_process_and_publish_frame(workers[w], sent)
                   EXCEPT !.frame_captured_this_iteration = observed,
                          !.start_lag = FALSE] IN
  IF ~workers[w].is_recording
    THEN \E removed \in Removals :
         /\ mp4Exists' = ~removed
         /\ IF raised
              THEN /\ workers' = [workers EXCEPT ![w] =
                        Slept([Precleaned(framed, removed)
                                 EXCEPT !.is_recording = TRUE, !.age = 0],
                              TRUE)]
                   /\ UNCHANGED <<handles, rawExists>>
              ELSE /\ handles' = RecordingStarted(_picamera_object)
                   /\ rawExists' = TRUE
                   /\ workers' = [workers EXCEPT ![w] =
                        Slept([Precleaned(framed, removed)
                                 EXCEPT !.is_recording = TRUE, !.age = 0],
                              FALSE)]
    ELSE /\ UNCHANGED <<rawExists, mp4Exists>>
         /\ CASE due /\ ~raised ->
                   /\ handles' = RecordingStopped(_picamera_object)
                   /\ workers' = [workers EXCEPT ![w] =
                                    [framed EXCEPT !.pc = "w_process"]]
              [] due /\ raised ->
                   /\ workers' = [workers EXCEPT ![w] = Slept(framed, TRUE)]
                   /\ UNCHANGED handles
              [] ~due ->
                   /\ workers' = [workers EXCEPT ![w] = Slept(framed, FALSE)]
                   /\ UNCHANGED handles

\* camera.py:425-446  _handle_recording while not recording: the removal of a
\* stale MP4 is tried, start_recording(H264Encoder(), VIDEO_FILE_PATH) opens
\* the raw file and recording_start_time becomes current_time
\* camera.py:448-452  while recording: once the segment duration is reached
\* stop_recording(), and the segment is to be processed
\* camera.py:545-551  an exception of the device leaves is_recording and
\* recording_start_time as they were
_handle_recording(w, sent, raised, due) ==
  LET framed == [_process_and_publish_frame(workers[w], sent)
                   EXCEPT !.frame_captured_this_iteration = observed,
                          !.start_lag = FALSE] IN
  IF ~workers[w].is_recording
    THEN \E removed \in Removals :
         /\ mp4Exists' = ~removed
         /\ IF raised
              THEN /\ workers' = [workers EXCEPT ![w] =
                                    Slept(Precleaned(framed, removed), TRUE)]
                   /\ UNCHANGED <<handles, rawExists>>
              ELSE /\ handles' = RecordingStarted(_picamera_object)
                   /\ rawExists' = TRUE
                   /\ workers' = [workers EXCEPT ![w] =
                        Slept([Precleaned(framed, removed)
                                 EXCEPT !.is_recording = TRUE, !.age = 0],
                              FALSE)]
    ELSE /\ UNCHANGED <<rawExists, mp4Exists>>
         /\ CASE due /\ ~raised ->
                   /\ handles' = RecordingStopped(_picamera_object)
                   /\ workers' = [workers EXCEPT ![w] =
                                    [framed EXCEPT !.pc = "w_process"]]
              [] due /\ raised ->
                   /\ workers' = [workers EXCEPT ![w] = Slept(framed, TRUE)]
                   /\ UNCHANGED handles
              [] ~due ->
                   /\ workers' = [workers EXCEPT ![w] = Slept(framed, FALSE)]
                   /\ UNCHANGED handles

\* camera.py:513-535  a pass without a frame: capture_array() raised, or
\* there is no camera object; the error is logged, time.sleep(1), continue
Missed(r) == [Slept(r, TRUE) EXCEPT !.frame_captured_this_iteration = FALSE]

\* a loop that a failed capture or publish ends: the exception of
\* camera.py:519 leaves the while statement
w_loop_dies(w) ==
  /\ Running(w, "w_loop")
  /\ \E captured \in BOOLEAN, sent \in Sendings, raised \in BOOLEAN,
        due \in Due(w) :
       CASE ~_is_running ->
              /\ WGoto(w, "w_finally")
              /\ UNCHANGED <<handles, rawExists, mp4Exists>>
         [] _is_running /\ ~(captured /\ IsOpen(_picamera_object)) ->
              /\ workers' = [workers EXCEPT ![w] =
                               [Missed(@) EXCEPT !.pc = "w_finally"]]
              /\ UNCHANGED <<handles, rawExists, mp4Exists>>
         [] _is_running /\ captured /\ IsOpen(_picamera_object) ->
              _handle_recording(w, sent, raised, due)
  /\ UNCHANGED <<_is_running, _camera_thread, _picamera_object, registry,
                 events, meter, pc, loc, result, messages, overlaps>>

\* a loop that tests the flag only between two segments: while a recording
\* is open the passes go on
w_loop_deaf(w) ==
  /\ Running(w, "w_loop")
  /\ \E captured \in BOOLEAN, sent \in Sendings, raised \in BOOLEAN,
        due \in Due(w) :
       LET set == _is_running \/ workers[w].is_recording IN
       CASE ~set ->
              /\ WGoto(w, "w_finally")
              /\ UNCHANGED <<handles, rawExists, mp4Exists>>
         [] set /\ ~(captured /\ IsOpen(_picamera_object)) ->
              /\ workers' = [workers EXCEPT ![w] = Missed(@)]
              /\ UNCHANGED <<handles, rawExists, mp4Exists>>
         [] set /\ captured /\ IsOpen(_picamera_object) ->
              _handle_recording(w, sent, raised, due)
  /\ UNCHANGED <<_is_running, _camera_thread, _picamera_object, registry,
                 events, meter, pc, loc, result, messages, overlaps>>

\* a loop that gives the device up when a capture fails: the object is closed
\* and forgotten
w_loop_tears_down(w) ==
  /\ Running(w, "w_loop")
  /\ \E captured \in BOOLEAN, sent \in Sendings, raised \in BOOLEAN,
        due \in Due(w) :
       CASE ~_is_running ->
              /\ WGoto(w, "w_finally")
              /\ UNCHANGED <<_picamera_object, handles, rawExists, mp4Exists>>
         [] _is_running /\ ~(captured /\ IsOpen(_picamera_object)) ->
              /\ workers' = [workers EXCEPT ![w] = Missed(@)]
              /\ handles' = close_once(TRUE)
              /\ _picamera_object' = None
              /\ UNCHANGED <<rawExists, mp4Exists>>
         [] _is_running /\ captured /\ IsOpen(_picamera_object) ->
              /\ _handle_recording(w, sent, raised, due)
              /\ UNCHANGED _picamera_object
  /\ UNCHANGED <<_is_running, _camera_thread, registry,
                 events, meter, pc, loc, result, messages, overlaps>>

\* camera.py:503-559  one pass of `while _is_running.is_set()`: capture_array()
\* and publish, then _handle_recording; without a camera object, or when the
\* capture fails, the pass sleeps and does nothing else.  A clear flag ends
\* the loop and the finally block runs.  `captured` is capture_array()
\* succeeding, `sent` the frame being published, `raised` the device refusing
\* start_recording/stop_recording
w_loop(w) ==
  /\ Running(w, "w_loop")
  /\ \E captured \in BOOLEAN, sent \in Sendings, raised \in BOOLEAN,
        due \in Due(w) :
       CASE ~_is_running ->
              /\ WGoto(w, "w_finally")
              /\ UNCHANGED <<handles, rawExists, mp4Exists>>
         [] _is_running /\ ~(captured /\ IsOpen(_picamera_object)) ->
              /\ workers' = [workers EXCEPT ![w] = Missed(@)]
              /\ UNCHANGED <<handles, rawExists, mp4Exists>>
         [] _is_running /\ captured /\ IsOpen(_picamera_object) ->
              _handle_recording(w, sent, raised, due)
  /\ UNCHANGED <<_is_running, _camera_thread, _picamera_object, registry,
                 events, meter, pc, loc, result, messages, overlaps>>

\* what subprocess.run(["ffmpeg", ...], check=False) can do (camera.py:319):
\*   zero, nonzero       the process ran and exited with that return code
\*   FileNotFoundError   there is no ffmpeg in PATH
\*   SubprocessError     an exception of the subprocess module
\*   PermissionError     the binary is there and may not be executed: an
\*                       OSError that is neither of the two above
RunOutcomes == {"zero", "nonzero", "FileNotFoundError", "SubprocessError",
                "PermissionError"}

\* the runs that differ in what the program does with them
Runs == IF observed THEN RunOutcomes
                    ELSE {"zero", "nonzero", "PermissionError"}

\* camera.py:292-349  _convert_h264_to_mp4: False without the input file;
\* True for return code 0, False for another; `except FileNotFoundError` and
\* `except subprocess.SubprocessError` return False; any other exception of
\* subprocess.run leaves the function ("raised")
_convert_h264_to_mp4(input_exists, run) ==
  CASE ~input_exists -> "False"
    [] input_exists /\ run = "zero" -> "True"
    [] input_exists /\ run = "nonzero" -> "False"
    [] input_exists /\ run \in {"FileNotFoundError", "SubprocessError"} ->
         "False"
    [] OTHER -> "raised"

\* what _process_segment_after_recording_stops can meet:
\*   failed    _convert_h264_to_mp4 returns False
\*   uploaded  the conversion and upload_file_to_r2 succeed
\*   kept      the conversion succeeds, the upload fails
\*   raised    _convert_h264_to_mp4 raises: the rest of the processing is
\*             skipped
SegmentOutcomes == {"failed", "uploaded", "kept", "raised"}

\* camera.py:365-372  the conversion of the raw file, then the upload
Processed(run, stored) ==
  CASE _convert_h264_to_mp4(rawExists, run) = "raised" -> "raised"
    [] _convert_h264_to_mp4(rawExists, run) = "False" -> "failed"
    [] _convert_h264_to_mp4(rawExists, run) = "True" /\ stored -> "uploaded"
    [] OTHER -> "kept"

\* _upload_recording_to_r2() is reached after a conversion that returned True
Storings(run) ==
  IF _convert_h264_to_mp4(rawExists, run) = "True" THEN BOOLEAN ELSE {FALSE}

\* camera.py:352-400, 1022-1057  nothing without a raw file; else convert,
\* upload (the MP4 is removed after a successful upload or a failed
\* conversion, and kept after a failed upload), remove the raw file; an
\* exception of the conversion leaves the function before any file is removed
_process_segment_after_recording_stops(outcome) ==
  IF rawExists /\ outcome # "raised"
    THEN /\ rawExists' = FALSE
         /\ mp4Exists' = (outcome = "kept")
         /\ puts' = IF outcome = "failed" THEN puts
                                          ELSE Counted(puts, MaxSegments)
    ELSE UNCHANGED <<rawExists, mp4Exists, puts>>

\* the worker's locals after the segment was handed to the transcoder
\* (camera.py:319 runs only when the raw file exists, camera.py:302)
Handed(r, outcome) ==
  IF rawExists
    THEN [r EXCEPT !.handed = Counted(@, MaxSegments),
                   !.conversion_successful =
                      observed /\ outcome \in {"uploaded", "kept"},
                   !.upload_successful = observed /\ outcome = "uploaded",
                   !.faulted = @ \/ (observed /\ outcome # "uploaded")]
    ELSE r

\* what the conversion met and answered, for the record
Converted(r, run) ==
  IF observed /\ rawExists
    THEN [r EXCEPT !.run = run,
                   !.converted = _convert_h264_to_mp4(rawExists, run),
                   !.start_lag = TRUE]
    ELSE r

\* camera.py:455  the rotation processes the segment just stopped; an
\* exception of the processing leaves _handle_recording and is caught by the
\* loop (camera.py:545-551), which sleeps and goes on with its old locals
w_process(w) ==
  /\ Running(w, "w_process")
  /\ \E run \in Runs, stored \in BOOLEAN :
       /\ stored \in Storings(run)
       /\ _process_segment_after_recording_stops(Processed(run, stored))
       /\ workers' = [workers EXCEPT ![w] =
            IF rawExists /\ Processed(run, stored) = "raised"
              THEN Slept([Converted(Handed(@, "raised"), run)
                            EXCEPT !.pc = "w_loop"], TRUE)
              ELSE [Converted(Handed(@, Processed(run, stored)), run)
                      EXCEPT !.pc = "w_rotate"]]
  /\ UNCHANGED <<_is_running, _camera_thread, _picamera_object, handles,
                 registry, events, observed, pc, loc, result, messages,
                 overlaps>>

\* a rotation that takes the MP4 a failed upload left behind for a fatal
\* error and ends the loop
w_rotate_wedged(w) ==
  /\ Running(w, "w_rotate")
  /\ \E raised \in BOOLEAN, removed \in Removals :
       /\ mp4Exists' = ~removed
       /\ CASE mp4Exists ->
              /\ WGoto(w, "w_finally")
              /\ UNCHANGED <<handles, rawExists>>
         [] ~mp4Exists /\ (raised \/ ~IsOpen(_picamera_object)) ->
              /\ workers' = [workers EXCEPT ![w] =
                              Slept([Precleaned(@, removed)
                                       EXCEPT !.pc = "w_loop"], TRUE)]
              /\ UNCHANGED <<handles, rawExists>>
         [] ~mp4Exists /\ ~(raised \/ ~IsOpen(_picamera_object)) ->
              /\ handles' = RecordingStarted(_picamera_object)
              /\ rawExists' = TRUE
              /\ workers' = [workers EXCEPT ![w] =
                              Slept([Precleaned(@, removed)
                                       EXCEPT !.pc = "w_loop", !.age = 0],
                                    FALSE)]
  /\ UNCHANGED <<_is_running, _camera_thread, _picamera_object, registry,
                 events, meter, pc, loc, result, messages, overlaps>>

\* a rotation that opens the next recording without looking for a stale MP4
w_rotate_keeps_stale(w) ==
  /\ Running(w, "w_rotate")
  /\ \E raised \in BOOLEAN :
       /\ mp4Exists' = mp4Exists
       /\ IF raised \/ ~IsOpen(_picamera_object)
            THEN /\ workers' = [workers EXCEPT ![w] =
                                 Slept([@ EXCEPT !.pc = "w_loop"], TRUE)]
                 /\ UNCHANGED <<handles, rawExists>>
            ELSE /\ handles' = RecordingStarted(_picamera_object)
                 /\ rawExists' = TRUE
                 /\ workers' = [workers EXCEPT ![w] =
                                 Slept([@ EXCEPT !.pc = "w_loop", !.age = 0],
                                       FALSE)]
  /\ UNCHANGED <<_is_running, _camera_thread, _picamera_object, registry,
                 events, meter, pc, loc, result, messages, overlaps>>

\* camera.py:460-474  the rotation goes on: the removal of a stale MP4 is
\* tried,
\* start_recording on the same path, recording_start_time becomes the
\* current_time of the pass; an exception leaves the locals as they were
\* (camera.py:545-551)
w_rotate(w) ==
  /\ Running(w, "w_rotate")
  /\ \E raised \in BOOLEAN, removed \in Removals :
       /\ mp4Exists' = ~removed
       /\ IF raised \/ ~IsOpen(_picamera_object)
            THEN /\ workers' = [workers EXCEPT ![w] =
                                 Slept([Precleaned(@, removed)
                                          EXCEPT !.pc = "w_loop"], TRUE)]
                 /\ UNCHANGED <<handles, rawExists>>
            ELSE /\ handles' = RecordingStarted(_picamera_object)
                 /\ rawExists' = TRUE
                 /\ workers' = [workers EXCEPT ![w] =
                                 Slept([Precleaned(@, removed)
                                          EXCEPT !.pc = "w_loop", !.age = 0],
                                       FALSE)]
  /\ UNCHANGED <<_is_running, _camera_thread, _picamera_object, registry,
                 events, meter, pc, loc, result, messages, overlaps>>

\* camera.py:566-612  finally: a recording camera object is stopped and its
\* segment processed; with is_recording set but the object not recording the
\* raw file is processed if present; with no object nothing can be done
w_finally(w) ==
  /\ Running(w, "w_finally")
  /\ \E raised \in BOOLEAN :
       CASE IsRecording(_picamera_object) ->
              IF raised
                THEN WGoto(w, "none") /\ UNCHANGED handles
                ELSE /\ handles' = RecordingStopped(_picamera_object)
                     /\ WGoto(w, "w_final")
         [] ~IsRecording(_picamera_object) ->
              /\ IF workers[w].is_recording /\ _picamera_object # None
                      /\ rawExists
                   THEN WGoto(w, "w_final")
                   ELSE WGoto(w, "none")
              /\ UNCHANGED handles
  /\ UNCHANGED <<_is_running, _camera_thread, _picamera_object, registry,
                 events, rawExists, mp4Exists, meter, pc, loc, result,
                 messages, overlaps>>

\* camera.py:581, 601  the final segment is processed and the thread ends
w_final(w) ==
  /\ Running(w, "w_final")
  /\ \E run \in Runs, stored \in BOOLEAN :
       /\ stored \in Storings(run)
       /\ _process_segment_after_recording_stops(Processed(run, stored))
  /\ WGoto(w, "none")
  /\ UNCHANGED <<_is_running, _camera_thread, _picamera_object, handles,
                 registry, events, observed, pc, loc, result, messages,
                 overlaps>>

(* ---- the program ------------------------------------------------------ *)
\* the threads of the process run until the process exits
Next ==
  \/ \E c \in Callers : call_start(c)
  \/ \E c \in Callers : call_stop(c)
  \/ \E c \in Callers : start_check(c)
  \/ \E c \in Callers : start_getdev(c)
  \/ \E c \in Callers : _setup_camera(c)
  \/ \E c \in Callers : start_reg(c)
  \/ \E c \in Callers : start_spawn(c)
  \/ \E c \in Callers : start_alive(c)
  \/ \E c \in Callers : stop_clear(c)
  \/ \E c \in Callers : stop_join(c)
  \/ \E c \in Callers : stop_release(c)
  \/ \E c \in Callers : stop_already(c)
  \/ \E c \in Callers : upd_read(c)
  \/ \E c \in Callers : upd_write(c)
  \/ \E c \in Callers : _cleanup_camera(c)
  \/ \E w \in Workers : w_loop(w)
  \/ \E w \in Workers : w_process(w)
  \/ \E w \in Workers : w_rotate(w)
  \/ \E w \in Workers : w_finally(w)
  \/ \E w \in Workers : w_final(w)

Spec == Init /\ [][Next]_vars

\* the same program when no two calls overlap: a thread enters
\* start_camera_streaming or stop_camera_streaming only while the other rests
Serial(c) == ~Overlapping(c)

SerialNext ==
  \/ \E c \in Callers : Serial(c) /\ call_start(c)
  \/ \E c \in Callers : Serial(c) /\ call_stop(c)
  \/ \E c \in Callers : start_check(c)
  \/ \E c \in Callers : start_getdev(c)
  \/ \E c \in Callers : _setup_camera(c)
  \/ \E c \in Callers : start_reg(c)
  \/ \E c \in Callers : start_spawn(c)
  \/ \E c \in Callers : start_alive(c)
  \/ \E c \in Callers : stop_clear(c)
  \/ \E c \in Callers : stop_join(c)
  \/ \E c \in Callers : stop_release(c)
  \/ \E c \in Callers : stop_already(c)
  \/ \E c \in Callers : upd_read(c)
  \/ \E c \in Callers : upd_write(c)
  \/ \E c \in Callers : _cleanup_camera(c)
  \/ \E w \in Workers : w_loop(w)
  \/ \E w \in Workers : w_process(w)
  \/ \E w \in Workers : w_rotate(w)
  \/ \E w \in Workers : w_finally(w)
  \/ \E w \in Workers : w_final(w)

SerialSpec == Init /\ [][SerialNext]_vars

\* a step of thread c inside start_camera_streaming or stop_camera_streaming
CallerStep(c) ==
  \/ start_check(c) \/ start_getdev(c) \/ _setup_camera(c) \/ start_reg(c)
  \/ start_spawn(c) \/ start_alive(c) \/ stop_clear(c) \/ stop_join(c)
  \/ stop_release(c) \/ stop_already(c) \/ upd_read(c) \/ upd_write(c)
  \/ _cleanup_camera(c)

\* a thread that is inside a call keeps being scheduled; nothing is assumed
\* of the worker threads, which may never take another step, nor of the
\* arrival of calls
FairSerialSpec == SerialSpec /\ \A c \in Callers : WF_vars(CallerStep(c))

\* a step of worker thread w
WorkerStep(w) ==
  w_loop(w) \/ w_process(w) \/ w_rotate(w) \/ w_finally(w) \/ w_final(w)

\* the serial program in which every thread that can take a step keeps being
\* scheduled and every device, transcoder and uploader call returns; nothing
\* is assumed of the arrival of calls
FairThreadsSpec ==
  /\ SerialSpec
  /\ \A c \in Callers : WF_vars(CallerStep(c))
  /\ \A w \in Workers : WF_vars(WorkerStep(w))

\* the program while no camera control message arrives: the main thread
\* starts the camera at boot (main.py:81) and stops it at shutdown
\* (main.py:107), and the worker runs in between; the one start finds no
\* worker running, so it never reads the registry at camera.py:630
MainNext ==
  \/ call_start("main")
  \/ call_stop("main")
  \/ start_check("main")
  \/ _setup_camera("main")
  \/ start_reg("main")
  \/ start_spawn("main")
  \/ start_alive("main")
  \/ stop_clear("main")
  \/ stop_join("main")
  \/ stop_release("main")
  \/ stop_already("main")
  \/ upd_read("main")
  \/ upd_write("main")
  \/ _cleanup_camera("main")
  \/ \E w \in Workers : w_loop(w)
  \/ \E w \in Workers : w_process(w)
  \/ \E w \in Workers : w_rotate(w)
  \/ \E w \in Workers : w_finally(w)
  \/ \E w \in Workers : w_final(w)

\* that program in a metered run: every pass of the loop takes one unit of
\* time, and the transcoder and uploader calls are counted
MeteredSpec == MeteredInit /\ [][MainNext]_vars

(* ---- what the specification says of start and stop -------------------- *)
\* thread c is inside stop_camera_streaming, called by itself or by start
InStop(c) ==
  \/ pc[c] \in {"stop_clear", "stop_join", "stop_object"}
  \/ pc[c] \in {"upd_read", "upd_write"} /\ loc[c].updNew = "offline"

\* thread c is inside the part of start_camera_streaming that acquires the
\* camera, registers it and spawns the worker (camera.py:657-750)
InAcquireAndSpawn(c) ==
  \/ pc[c] \in {"setup_acquire", "start_reg", "start_spawn", "start_alive"}
  \/ pc[c] \in {"upd_read", "upd_write"} /\ loc[c].updRet = "start_spawn"

\* C1: for every interleaving of start and stop calls of the main thread and
\* the bus thread, at most one camera object is open in every reachable state.
C1_AtMostOneOpenHandle == Cardinality(OpenHandles) <= 1

\* C2: at most one capture worker thread is alive at any time, also when a
\* start follows a stop whose join timed out.
C2_AtMostOneWorkerAlive == Cardinality(AliveWorkers) <= 1

\* C3: two start calls that run concurrently are never both inside the
\* acquire-and-spawn sequence.
C3_OneStartAcquires ==
  Cardinality({c \in Callers : InAcquireAndSpawn(c)}) <= 1

\* thread c takes the step in which stop_camera_streaming or _cleanup_camera
\* calls stop_recording()/close() on the camera object
InvokesDeviceMethod(c) ==
  /\ pc[c] \in {"stop_object", "cleanup"}
  /\ _picamera_object # None
  /\ pc'[c] # pc[c]

\* C4: the thread that runs start or stop never calls stop_recording() or
\* close() on the camera object while a worker thread is alive, also after a
\* join that timed out.
C4_NoDeviceMethodWhileWorkerAlive ==
  [][\A c \in Callers : InvokesDeviceMethod(c) => AliveWorkers = {}]_vars

\* C5: once the worker threads have ended, no recorded raw file is left that
\* was not handed to the transcoder.
C5_NoRawFileLeft == AliveWorkers = {} => ~rawExists

\* thread c returns from stop_camera_streaming with this step
StopReturns(c) ==
  /\ InStop(c)
  /\ pc'[c] \in Resting \cup {"setup_acquire"}

\* C6: stop_camera_streaming always returns, whether or not the worker ever
\* exits, and when it returns the running flag is clear and _picamera_object
\* is None.
C6_StopReturnsReleased ==
  /\ \A c \in Callers : InStop(c) ~> ~InStop(c)
  /\ [][\A c \in Callers :
          StopReturns(c) => ~_is_running' /\ _picamera_object' = None]_vars

\* a stop has returned although the worker it waited for is still alive
C6_ReturnedWhileWorkerAlive ==
  /\ result.op = "stop"
  /\ AliveWorkers # {}
  /\ ~_is_running
  /\ _picamera_object = None

\* the worker, that is the thread the module tracks in _camera_thread, is
\* alive and the running flag is set (camera.py:626)
TrackedWorkerRuns == is_alive(_camera_thread) /\ _is_running

\* what start_camera_streaming must leave alone when it does not restart
StartFrame == <<_is_running, _camera_thread, _picamera_object, handles,
                workers, events>>

\* thread c is at the top of start_camera_streaming, before it decided
AtTopOfStart(c) == pc[c] \in {"start_check", "start_getdev"}

\* C7: with the worker alive, the running flag set and the registry online,
\* start_camera_streaming changes neither the registry, the event log, the
\* camera object, the running flag nor the worker, and returns.
C7_StartIsNoOp ==
  [][\A c \in Callers :
       (/\ AtTopOfStart(c)
        /\ TrackedWorkerRuns /\ get_device_by_id = "online"
        /\ pc'[c] # pc[c])
       => /\ UNCHANGED <<StartFrame, registry>>
          /\ pc'[c] \in {"start_getdev"} \cup Resting]_vars

\* a start has returned by the no-op path
C7_NoOpTaken ==
  /\ result.op = "start" /\ result.how = "noop"
  /\ TrackedWorkerRuns /\ get_device_by_id = "online"

\* thread c is inside the _update_camera_state(home_id, "online", ...) of
\* the reconciliation (camera.py:638-641)
Reconciling(c) ==
  /\ pc[c] \in {"upd_read", "upd_write"}
  /\ loc[c].updNew = "online" /\ loc[c].updRet = "return"

DecidesRestart(c) == AtTopOfStart(c) /\ pc'[c] = "stop_clear"

StopOfStoppedSteps(c) ==
  /\ loc[c].op = "stop" /\ loc[c].wasStopped
  /\ pc[c] \notin Resting
  /\ pc'[c] # pc[c]

InLoop == {"w_loop", "w_process", "w_rotate"}

\* C11: the worker loop ends only when the running flag is clear: whenever a
\* worker leaves the while statement, whatever failed in its passes, the
\* flag is clear at that moment
C11_LoopEndsOnlyOnClearFlag ==
  [][\A w \in Workers :
       workers[w].pc \in InLoop /\ workers'[w].pc \notin InLoop
         => ~_is_running]_vars

\* a worker some of whose passes failed has left the loop on the clear flag
C11_LoopEndedAfterFailures ==
  \E w \in Workers :
    workers[w].pc = "w_finally" /\ workers[w].faulted /\ ~_is_running

\* C12: once the running flag is clear a worker begins no new pass: its next
\* step at the top of the loop leaves the loop and touches neither the device
\* nor the files; and unless the flag is set again the worker ends (the
\* process exiting ends it too, the thread being a daemon, camera.py:735)
C12_NoNewTickAndTerminates ==
  /\ [][\A w \in Workers :
          ~_is_running /\ workers[w].pc = "w_loop" /\ workers'[w] # workers[w]
            => /\ workers'[w].pc = "w_finally"
               /\ UNCHANGED <<handles, rawExists, mp4Exists>>]_vars
  /\ \A w \in Workers :
       (~_is_running /\ is_alive(w)) ~> (~is_alive(w) \/ _is_running \/ Exited)

\* stop_camera_streaming has cleared the flag and waits in join() for a
\* worker that has ended meanwhile
C12_WorkerEndedAfterClear ==
  \E c \in Callers :
    /\ pc[c] = "stop_join" /\ ~_is_running /\ ~Exited
    /\ loc[c].joinT # None /\ ~is_alive(loc[c].joinT)

\* C13: when the transcoder fails on the segment of a rotation the raw file
\* is removed, the uploader is not called and the worker stays in the loop;
\* its next step starts the recording of the next segment on the raw path,
\* unless the device refuses start_recording
C13_FailedTranscodeIsContained ==
  [][\A w \in Workers :
       /\ (/\ workers[w].pc = "w_process" /\ workers'[w] # workers[w]
           /\ rawExists /\ ~workers'[w].conversion_successful)
            => /\ ~rawExists' /\ ~mp4Exists' /\ puts' = puts
               /\ workers'[w].pc = "w_rotate"
       /\ (/\ workers[w].pc = "w_rotate" /\ workers'[w] # workers[w]
           /\ ~workers[w].conversion_successful)
            => /\ workers'[w].pc = "w_loop"
               /\ \/ /\ IsRecording(_picamera_object)' /\ rawExists'
                     /\ workers'[w].age = 1
                  \/ UNCHANGED <<handles, rawExists>>]_vars

\* C14: a failed upload does not block the rotations.  The processing whose
\* upload fails still removes the raw file and leaves the worker in the loop;
\* the rotation then removes the MP4 left behind, unless the removal raises,
\* and starts the next recording unless the device refuses; a recording that
\* is due is closed;
\* and the segment closed after a failed upload is transcoded and, once
\* converted, given to the uploader
C14_FailedUploadBlocksNothing ==
  [][\A w \in Workers :
       LET r == workers[w]
           q == workers'[w] IN
       /\ (/\ r.pc = "w_process" /\ q # r /\ rawExists
           /\ q.conversion_successful /\ ~q.upload_successful)
            => q.pc = "w_rotate" /\ ~rawExists' /\ puts' = Counted(puts, MaxSegments)
       /\ (r.pc = "w_rotate" /\ q # r /\ ~r.upload_successful)
            => /\ q.pc = "w_loop" /\ (mp4Exists' <=> q.e_remove_orphan)
               /\ \/ /\ IsRecording(_picamera_object)' /\ rawExists'
                     /\ q.age = 1
                  \/ UNCHANGED <<handles, rawExists>>
       /\ (/\ r.pc = "w_loop" /\ q # r /\ r.is_recording /\ handles' # handles
           /\ ~r.upload_successful)
            => /\ r.age >= RotationTicks /\ q.pc = "w_process"
               /\ ~IsRecording(_picamera_object)'
       /\ (r.pc = "w_process" /\ q # r /\ rawExists /\ ~r.upload_successful)
            => /\ q.handed = Counted(r.handed, MaxSegments)
               /\ q.conversion_successful
                    => puts' = Counted(puts, MaxSegments)]_vars

\* the upload of the first segment failed and the rotation has closed the
\* second segment, which is about to be processed
C14_RotationAfterFailedUpload ==
  \E w \in Workers :
    /\ workers[w].pc = "w_process" /\ workers[w].handed = 1 /\ puts = 1
    /\ workers[w].conversion_successful /\ ~workers[w].upload_successful
    /\ rawExists /\ ~mp4Exists

\* C15: when the processing of a segment returns, at a rotation or at the
\* end of the worker, neither the raw file nor the MP4 of the segment exists
C15_NoSegmentFileOutlivesProcessing ==
  [][\A w \in Workers :
       /\ workers[w].pc \in {"w_process", "w_final"}
       /\ workers'[w] # workers[w] /\ rawExists
       => ~rawExists' /\ ~mp4Exists']_vars

\* C16: no recording lasts longer than the rotation duration plus one pass:
\* while a worker's recording is open on the device, the time since its
\* start_recording is at most RotationTicks + 1
C16_SegmentWithinRotationDuration ==
  \A w \in Workers :
    workers[w].is_recording /\ IsRecording(_picamera_object)
      => workers[w].age <= RotationTicks + 1

\* the camera objects that are recording to VIDEO_FILE_PATH
RecordingHandles == {h \in Handles : handles[h].recording}

\* C17: at most one recording is open for writing on the raw recording path
C17_AtMostOneRecording == Cardinality(RecordingHandles) <= 1

\* C18: a worker none of whose operations failed and that has run for longer
\* than one rotation duration and less than two has handed exactly one
\* segment to the transcoder; and a worker's count of handed segments changes
\* only when it processes a closed segment, by one
C18_OneSegmentPerRotation ==
  /\ [](\A w \in Workers :
         /\ is_alive(w) /\ ~workers[w].faulted
         /\ workers[w].elapsed > RotationTicks
         /\ workers[w].elapsed < 2 * RotationTicks
         => workers[w].handed = 1)
  /\ [][\A w \in Workers :
          LET r == workers[w]
              q == workers'[w] IN
          /\ (q.pc # "none" /\ q.handed # r.handed)
               => r.pc = "w_process" /\ rawExists /\ q.handed = r.handed + 1
          /\ (r.pc = "w_process" /\ q # r /\ rawExists
                 /\ r.handed < MaxSegments)
               => q.handed = r.handed + 1]_vars

\* a worker without failures is in the loop in its second rotation period
\* and has handed one segment
C18_SecondPeriodOneSegment ==
  \E w \in Workers :
    /\ workers[w].pc = "w_loop" /\ ~workers[w].faulted /\ _is_running
    /\ workers[w].elapsed = RotationTicks + 1 /\ workers[w].handed = 1
    /\ IsRecording(_picamera_object)

(* ---- what the specification says of the acquisition ------------------- *)
\* thread c makes an attempt of the retry loop of _setup_camera with this step
Attempts(c) ==
  pc[c] = "setup_acquire" /\ <<pc[c], loc[c]>>' # <<pc[c], loc[c]>>

\* C19: _setup_camera makes at most max_retries attempts.  The loop is
\* entered with no attempt made; only an attempt that met a busy device is
\* followed by another one, and only while fewer than max_retries have been
\* made; so a success in attempt k comes after k - 1 busy attempts, and the
\* acquisition that gives up on a busy device does so in attempt max_retries
C19_BoundedAttempts ==
  [][\A c \in Callers :
       /\ (pc[c] # "setup_acquire" /\ pc'[c] = "setup_acquire")
            => loc'[c].attempt = 0
       /\ Attempts(c)
            => /\ loc[c].attempt + 1 <= max_retries
               /\ pc'[c] = "setup_acquire"
                    => /\ loc'[c].attempt = loc[c].attempt + 1
                       /\ loc'[c].attempt + 1 <= max_retries
                       /\ loc'[c].e = "busy"
               /\ (pc'[c] # "setup_acquire" /\ result'.how = "setup_busy")
                    => loc[c].attempt + 1 = max_retries]_vars

\* start_camera_streaming has returned after the device was busy in
\* max_retries attempts
C19_GaveUpAfterThreeBusy ==
  /\ result.op = "start" /\ result.how = "setup_busy"
  /\ _picamera_object = None

\* C20: "Permission denied" ends the acquisition at once: no attempt follows
\* one that was denied, and the start that met it returns in the same step
\* without a worker thread being created or the flag being set
C20_DeniedIsFatal ==
  /\ [](\A c \in Callers : pc[c] = "setup_acquire" => loc[c].e # "denied")
  /\ [][\A c \in Callers :
          Attempts(c) /\ result'.how = "setup_denied"
            => /\ pc'[c] \in Resting /\ result'.op = "start"
               /\ UNCHANGED <<workers, _camera_thread, _is_running>>]_vars

\* start_camera_streaming has returned on "Permission denied" and no worker
\* thread exists
C20_DeniedStartReturned ==
  /\ result.op = "start" /\ result.how = "setup_denied"
  /\ AliveWorkers = {} /\ _camera_thread = None

(* ---- what the specification says of a start that fails ---------------- *)
\* the paths by which start_camera_streaming returns after _setup_camera
\* returned False (camera.py:657-663)
AcquireFailures == {"setup_busy", "setup_denied", "setup_failed"}

\* the call that returned last is a start whose acquisition failed
AcquireFailed == result.op = "start" /\ result.how \in AcquireFailures

\* C21: when the acquisition fails in start_camera_streaming the registry row
\* of the camera shows error once the call has returned
C21_AcquireFailureShowsError ==
  AcquireFailed /\ registry.exists => registry.state = "error"

\* C22: a start whose hardware setup fails returns with the running flag
\* clear and without having spawned a worker: while it is in _setup_camera
\* the flag is clear and no thread is tracked, and the step in which
\* _setup_camera fails and the call returns changes neither
C22_SetupFailureSpawnsNothing ==
  /\ [](\A c \in Callers :
         pc[c] = "setup_acquire" => ~_is_running /\ _camera_thread = None)
  /\ [][\A c \in Callers :
          Attempts(c) /\ pc'[c] \in Resting
            => /\ result'.how \in AcquireFailures
               /\ ~_is_running' /\ _camera_thread' = None
               /\ UNCHANGED workers]_vars

\* a start has stopped the running camera, failed to acquire it again and
\* returned: the flag is clear and no thread is tracked
C22_RestartFailedInSetup ==
  /\ AcquireFailed /\ get_device_by_id = "offline"
  /\ ~_is_running /\ _camera_thread = None

\* C23: when the insertion of the device row fails for a camera that has no
\* row, the start goes on to _cleanup_camera and returns from it with the
\* flag clear, the module's handle empty and closed, and no worker spawned
C23_InsertFailureEndsStart ==
  [][\A c \in Callers :
       /\ (/\ pc[c] = "start_reg" /\ pc'[c] # pc[c]
           /\ ~registry.exists /\ ~registry'.exists)
            => pc'[c] = "cleanup" /\ UNCHANGED workers
       /\ (/\ pc[c] = "cleanup" /\ pc'[c] # pc[c]
           /\ loc[c].how = "insert_failed")
            => /\ ~_is_running' /\ _picamera_object' = None
               /\ _picamera_object # None
                    => handles'[_picamera_object].st # "open"
               /\ UNCHANGED workers]_vars

\* the call that returned last is a start that failed in _setup_camera or in
\* _setup_mqtt (camera.py:657-673)
SetupFailed ==
  result.op = "start" /\ result.how \in AcquireFailures \cup {"mqtt_failed"}

\* C24: after a start that failed during setup no camera object is left
\* open and the module's _picamera_object is None
C24_FailedSetupLeavesNoHandle ==
  SetupFailed => _picamera_object = None /\ OpenHandles = {}

(* ---- what the specification says of the registry and the event log ---- *)
\* C25: every logged event has a new state that differs from its old state,
\* and no two consecutive events record the same transition
C25_NoDuplicateEvents ==
  /\ \A i \in 1..Len(events) : events[i].new # events[i].old
  /\ \A i \in 1..Len(events) :
       i < Len(events) =>
         <<events[i].old, events[i].new>> # <<events[i+1].old, events[i+1].new>>

\* C26: a stop that closed the camera object sets the registry row to
\* offline and logs the change when the row showed another state; a stop
\* that could not close the object writes neither the registry nor an event
C26_OfflineOnlyAfterCleanStop ==
  /\ [](result.op = "stop" /\ result.how = "clean" /\ registry.exists
          => registry.state = "offline")
  /\ [][\A c \in Callers :
          /\ (/\ pc[c] = "upd_write" /\ pc'[c] # pc[c]
              /\ loc[c].how = "clean" /\ registry.exists)
               => /\ registry'.state = "offline"
                  /\ loc[c].updOld # "offline"
                       => /\ Len(events') = Len(events) + 1
                          /\ events'[Len(events')].new = "offline"
          /\ (/\ pc[c] = "stop_object" /\ pc'[c] # pc[c]
              /\ _picamera_object # None
              /\ handles'[_picamera_object].st = "open")
               => /\ pc'[c] # "upd_read"
                  /\ UNCHANGED <<registry, events>>]_vars

\* stop_camera_streaming has closed the camera object of a camera that was
\* online, and returned: the row shows offline and the last event records it
C26_CleanStopLoggedOffline ==
  /\ result.op = "stop" /\ result.how = "clean"
  /\ registry.exists /\ registry.state = "offline"
  /\ Len(events) > 0 /\ events[Len(events)].new = "offline"
  /\ events[Len(events)].old = "online"

(* ---- what the specification says of the release of the camera object -- *)
\* a camera object that was acquired and that the module holds no longer
Dropped(h) ==
  h # _picamera_object /\ (handles[h].st = "open" \/ handles[h].closes > 0)

\* C27: on every camera object that was acquired, close() has been called
\* exactly once when the module has let go of it
C27_ClosedExactlyOnce ==
  \A h \in Handles : Dropped(h) => handles[h].closes = 1

\* C27, as the code has it: on a camera object the module has let go of,
\* close() was called at least once and at most 1 + close_retries times, and
\* close() is only ever called on the object the module holds while that
\* object is open, so no call follows the one that succeeded
C27_ClosedUntilSuccess ==
  /\ [](\A h \in Handles :
         Dropped(h) => handles[h].closes >= 1 /\ handles[h].closes <= MaxCloses)
  /\ [][\A h \in Handles :
          handles'[h].closes > handles[h].closes
            => h = _picamera_object /\ handles[h].st = "open"]_vars

\* the first close() raised and a forced one closed the camera object
C27_ClosedBySecondCall ==
  \E h \in Handles :
    Dropped(h) /\ handles[h].st = "free" /\ handles[h].closes = 2

\* C28: a start for a camera that has no registry row, with the device and
\* the bus healthy and the insert succeeding, writes the row with the home_id
\* of the call as "initializing", and when the call returns the row shows
\* online and the event log holds one event, whose new state is online.
\* Stated for the start at boot, which finds the registry and the log empty
C28_FirstStartRegistersOnline ==
  /\ [][\A c \in Callers :
          (/\ pc[c] = "start_reg" /\ pc'[c] # pc[c]
           /\ ~registry.exists /\ registry'.exists)
            => /\ registry'.home = loc[c].home
               /\ registry'.state = "initializing"
               /\ loc'[c].updNew = "online" /\ pc'[c] = "upd_read"]_vars
  /\ [](result.op = "start" /\ result.how = "started" /\ registry.exists
          => /\ registry.state = "online" /\ registry.home \in HomeIds
             /\ Len(events) = 1
             /\ events[1].new = "online" /\ events[1].home = registry.home)

\* the start at boot has returned with the worker running, the row online
\* and one event logged
C28_StartedAndRegistered ==
  /\ result.op = "start" /\ result.how = "started" /\ result.by = "main"
  /\ registry.exists /\ registry.state = "online" /\ Len(events) = 1
  /\ is_alive(_camera_thread) /\ _is_running


\* the message _process_and_publish_frame builds for a thread started with
\* home_id
LiveMessage(home_id) == [topic |-> MQTT_CAMERA_LIVE_TOPIC, home_id |-> home_id]

\* C29: when start_camera_streaming(home_id) spawns the worker the registry
\* row already shows online and the thread is given that home_id; the first
\* pass of a worker whose operations all succeed publishes a live-preview
\* message on the camera's live topic that carries that home_id
C29_OnlineThenLivePreview ==
  /\ [][\A w \in Workers :
          (workers[w].pc = "none" /\ workers'[w].pc = "w_loop")
            => /\ registry.exists => registry.state = "online"
               /\ \E c \in Callers :
                    /\ pc[c] = "start_spawn" /\ pc'[c] = "start_alive"
                    /\ workers'[w].home = loc[c].home
                    /\ registry.exists => registry.home = loc[c].home]_vars
  /\ [][\A w \in Workers :
          (/\ workers[w].pc = "w_loop"
           /\ workers[w].elapsed = 0 /\ workers'[w].elapsed = 1
           /\ ~workers'[w].faulted)
            => /\ workers[w].home \in HomeIds
               /\ workers'[w].live = LiveMessage(workers[w].home)]_vars

\* the first start has returned, the row shows online and the worker's first
\* pass has published the preview for the home
C29_FirstPreviewPublished ==
  /\ result.op = "start" /\ result.how = "started"
  /\ registry.exists /\ registry.state = "online"
  /\ \E w \in Workers :
       /\ _camera_thread = w /\ workers[w].elapsed = 1 /\ ~workers[w].faulted
       /\ workers[w].live = LiveMessage(registry.home)


\* where a start is before it has asked for the bus, and in its clean-up
BeforeBus == {"start_check", "stop_clear", "stop_join", "stop_object",
              "setup_acquire", "cleanup"}

\* C30: a start_camera_streaming call on a stopped camera without a registry
\* row that finds the bus client not connected writes no row, logs no event
\* and spawns no worker in any of its steps, and it ends with the running
\* flag clear, no worker thread and the registry still without the row
C30_BusDownRegistersNothing ==
  [][\A c \in Callers :
       (/\ loc[c].op = "start" /\ loc[c].wasStopped /\ ~registry.exists
        /\ pc'[c] # pc[c]
        /\ pc[c] \in BeforeBus \/ (pc[c] = "start_reg" /\ pc'[c] = "cleanup"))
         => /\ UNCHANGED <<registry, events>>
            /\ AliveWorkers' = {}
            /\ (pc[c] = "cleanup" /\ loc[c].how = "mqtt_failed")
                 => /\ result' = [by |-> c, op |-> "start", how |-> "mqtt_failed"]
                    /\ ~_is_running' /\ _camera_thread' = None
                    /\ _picamera_object' = None
                    /\ ~registry'.exists]_vars

\* the first start found the bus down and has returned: nothing is registered
\* or logged and nothing runs
C30_BusDownStartEnded ==
  /\ result.op = "start" /\ result.how = "mqtt_failed"
  /\ ~registry.exists /\ events = << >>
  /\ ~_is_running /\ _camera_thread = None /\ AliveWorkers = {}


\* C31: a pass of the worker in which no frame was captured changes nothing
\* but the worker's own locals: the camera object and the state of its device
\* are as before, the running flag is still set, the registry and the event
\* log are untouched, and the thread is still in its loop, where the next
\* pass captures again
C31_CaptureFailureIsNotFatal ==
  [][\A w \in Workers :
       (/\ workers[w].pc = "w_loop" /\ _is_running
        /\ workers'[w].elapsed = workers[w].elapsed + 1
        /\ ~workers'[w].frame_captured_this_iteration)
         => /\ workers'[w].pc = "w_loop" /\ is_alive(w)'
            /\ workers'[w].faulted
            /\ UNCHANGED <<_is_running, _picamera_object, handles, registry,
                           events, _camera_thread>>
            /\ workers'[w].is_recording = workers[w].is_recording]_vars

\* the first pass of a worker got no frame: the thread is in its loop with
\* the flag set and the device held, and has published nothing
C31_LoopGoesOnAfterMiss ==
  \E w \in Workers :
    /\ workers[w].pc = "w_loop" /\ workers[w].elapsed = 1
    /\ workers[w].faulted /\ ~workers[w].frame_captured_this_iteration
    /\ workers[w].live = NoMessage
    /\ _camera_thread = w /\ IsOpen(_picamera_object) /\ _is_running


\* C32: a pass that got its frame while the worker was not recording and in
\* which the device did not open the recording (start_recording raised)
\* leaves is_recording false, the thread in its loop and the running flag
\* set, and calls nothing else on the device: stop_recording is not invoked
\* and no segment is handed to processing
C32_FailedOpenKeepsLoopIdle ==
  [][\A w \in Workers :
       (/\ workers[w].pc = "w_loop" /\ _is_running
        /\ ~workers[w].is_recording
        /\ workers'[w].elapsed = workers[w].elapsed + 1
        /\ workers'[w].frame_captured_this_iteration
        /\ ~IsRecording(_picamera_object)')
         => /\ ~workers'[w].is_recording
            /\ workers'[w].pc = "w_loop" /\ workers'[w].faulted
            /\ workers'[w].handed = workers[w].handed
            /\ UNCHANGED <<_is_running, _picamera_object, handles,
                           rawExists>>]_vars

\* start_recording has failed in both passes the worker has made: it still
\* loops with the flag set, not recording, and has published its preview
C32_LoopsWithoutRecording ==
  \E w \in Workers :
    /\ workers[w].pc = "w_loop" /\ workers[w].elapsed = 2
    /\ workers[w].frame_captured_this_iteration /\ workers[w].faulted
    /\ ~workers[w].is_recording /\ workers[w].handed = 0
    /\ workers[w].live = LiveMessage(workers[w].home)
    /\ _camera_thread = w /\ IsOpen(_picamera_object) /\ _is_running
    /\ ~IsRecording(_picamera_object) /\ ~rawExists


\* C33: between two passes of a running worker, is_recording is true only
\* while the camera object is recording to the raw path
C33_RecordingFlagMeansOpenRecording ==
  \A w \in Workers :
    (/\ workers[w].pc = "w_loop" /\ _camera_thread = w /\ _is_running
     /\ workers[w].is_recording)
      => IsRecording(_picamera_object) /\ rawExists


\* C34: _convert_h264_to_mp4 never raises to its caller: whatever the external
\* process did, the conversion a worker has made answered True or False, and
\* it answered True exactly when the process exited with return code zero
C34_TranscoderNeverRaises ==
  \A w \in Workers :
    /\ workers[w].converted \in {"-", "True", "False"}
    /\ workers[w].converted = "True" <=> workers[w].run = "zero"


\* a step in which worker w opens a raw recording on the camera object
Opens(w) ==
  /\ workers[w].pc \in {"w_loop", "w_rotate"} /\ workers'[w] # workers[w]
  /\ ~IsRecording(_picamera_object) /\ IsRecording(_picamera_object)'

Rotating(w) == workers[w].pc \in {"w_process", "w_rotate"}

\* C36: in a rotation nothing comes between the stop_recording of one
\* segment and the start_recording of the next: no step the worker takes
\* between the two hands the segment to the transcoder or uploads anything
C36_ReopensRightAfterStop ==
  [][\A w \in Workers :
       (Rotating(w) /\ workers'[w] # workers[w])
         => /\ workers'[w].handed = workers[w].handed
            /\ workers'[w].converted = workers[w].converted
            /\ puts' = puts]_vars


\* C37: the recording_start_time a worker holds for the segment it is
\* recording is the time at which that recording was opened: nothing that
\* takes time was done between reading the clock and start_recording
C37_StartTimeIsOpeningTime ==
  \A w \in Workers :
    (/\ workers[w].pc = "w_loop" /\ _camera_thread = w /\ _is_running
     /\ workers[w].is_recording /\ IsRecording(_picamera_object))
      => ~workers[w].start_lag


\* how a call ends that has reported the camera as in error
ErrorReports == AcquireFailures \cup {"mqtt_failed", "insert_failed",
                                      "prior_alive", "not_alive", "exception",
                                      "unclean"}

\* C38: a step in which a call reports the state "error" (a start that gives
\* up, in setup or after its clean-up; a stop whose camera object could not
\* be closed, made on its own or at the head of a start) leaves the registry
\* row and the event log as they were
C38_ErrorReportWritesNothing ==
  [][\A c \in Callers :
       /\ (/\ pc[c] \notin Resting /\ pc'[c] \in Resting
           /\ result'.how \in ErrorReports)
            => UNCHANGED <<registry, events>>
       /\ (/\ pc[c] = "stop_object" /\ _picamera_object # None
           /\ pc'[c] \notin {"stop_object", "upd_read"})
            => UNCHANGED <<registry, events>>]_vars

\* a start on a registered camera that had been stopped has given up in
\* setup: the registry still shows the offline the stop wrote, and the log
\* ends with that stop
C38_FailedStartKeepsRegistry ==
  /\ AcquireFailed /\ ~_is_running
  /\ registry.exists /\ registry.state = "offline"
  /\ Len(events) = 2 /\ events[2].new = "offline"


\* a step in which worker w runs the transcoder on the raw file
Transcodes(w) ==
  /\ workers[w].pc \in {"w_process", "w_final"} /\ rawExists
  /\ workers'[w] # workers[w]

\* C39: the transcoder never runs on the raw file while a recording is open
\* for writing on that path: when a worker processes a segment, at a rotation
\* or in its finally block, no camera object is recording, and none starts
\* to record in that step
C39_NoTranscodeWhileRecording ==
  [][\A w \in Workers :
       Transcodes(w) => \A h \in Handles : /\ ~handles[h].recording
                                          /\ ~handles'[h].recording]_vars


\* no start_camera_streaming or stop_camera_streaming call is in progress
Quiet == \A c \in Callers : pc[c] \in Resting

\* C40: while no call is in progress, a registry that shows the camera online
\* means the camera runs: the tracked worker thread is alive, the running
\* flag is set and the camera object holds the device
C40_OnlineMeansRunning ==
  (Quiet /\ registry.exists /\ registry.state = "online")
    => /\ is_alive(_camera_thread) /\ _is_running
       /\ IsOpen(_picamera_object)

====
